---------------------------- MODULE Spec2Model ----------------------------
(***************************************************************************)
(* Model of extra/vex2zapints.py: the VEX date helpers (dateVEX2sec,       *)
(* dateSec2VEX, dateVEXaddsec, dateVEX2split, date_to_jd), the block       *)
(* mapper doFlag and the top-level pipeline (scan count checks, station    *)
(* filter, source filter, zap loop, final gap).                            *)
(*                                                                         *)
(* Representation.  A VEX date such as 2015y262d11h56m15s is a sequence of *)
(* one-character strings; slicing, int() and the %0Nd formats act on the   *)
(* characters.  The script's floating-point day counts are kept exact: an  *)
(* MJD is a pair [hd, s] standing for hd half-days plus s seconds          *)
(* (date_to_jd yields a multiple of 0.5, jdfract counts from noon), and    *)
(* fb_Tint is kept in milliseconds.  floor and ceil are taken of the exact *)
(* quotient.  The recording reference is the one given by --startmjd and   *)
(* --tint (or read from the filterbank header); without either the script  *)
(* stops with a TypeError before anything is flagged.                      *)
(***************************************************************************)
EXTENDS Integers, Sequences, FiniteSets, TLC

VARIABLES
    sched,          \* vex['SCHED'] as parsed: the input schedule, never changed
    nominal_stop,   \* vex['EXPER'][exper]['exper_nominal_stop'], once the script has read it
    source,         \* args[1]
    telescope,      \* args[2].upper()
    blocks,         \* options.blocks
    fb_Tstart,      \* options.startmjd
    fb_Tint,        \* block duration, in milliseconds
    scans,          \* the mutable scan dictionary, in insertion order
    Nscans,         \* the script's Nscans
    scan_1,         \* first station-filtered scan
    scan_N,         \* last station-filtered scan
    zap_tstart,     \* the cursor of the zap loop
    ii,             \* index of the zap loop
    zapints_list,   \* the output list, each entry <<flag_startint, flag_stopint>>
    calls,          \* log of the doFlag calls made so far
    pc,             \* position in the script
    vdate,          \* round trip: the date converted
    secs,           \* round trip: dateVEX2sec(vdate)
    back            \* round trip: dateSec2VEX(secs, year of vdate)

convvars == <<vdate, secs, back>>
vars == <<sched, nominal_stop, source, telescope, blocks, fb_Tstart, fb_Tint,
          scans, Nscans, scan_1, scan_N, zap_tstart, ii, zapints_list,
          calls, pc, vdate, secs, back>>

None == [kind |-> "none"]

MaxScans == 3

----------------------------------------------------------------------------
(* Characters, int() and %0Nd                                              *)

Digit(n) ==
    CASE n = 0 -> "0" [] n = 1 -> "1" [] n = 2 -> "2" [] n = 3 -> "3"
      [] n = 4 -> "4" [] n = 5 -> "5" [] n = 6 -> "6" [] n = 7 -> "7"
      [] n = 8 -> "8" [] n = 9 -> "9"

DigitVal(c) ==
    CASE c = "0" -> 0 [] c = "1" -> 1 [] c = "2" -> 2 [] c = "3" -> 3
      [] c = "4" -> 4 [] c = "5" -> 5 [] c = "6" -> 6 [] c = "7" -> 7
      [] c = "8" -> 8 [] c = "9" -> 9

\* Python s[a:b] for 0 <= a <= b
Slice(s, a, b) ==
    SubSeq(s, a + 1, IF b < Len(s) THEN b ELSE Len(s))

\* Python int(s) for a string of decimal digits
RECURSIVE ToInt(_)
ToInt(s) ==
    IF Len(s) = 1 THEN DigitVal(s[1])
    ELSE 10 * ToInt(SubSeq(s, 1, Len(s) - 1)) + DigitVal(s[Len(s)])

RECURSIVE Digits(_)
Digits(n) ==
    IF n < 10 THEN <<Digit(n)>> ELSE Append(Digits(n \div 10), Digit(n % 10))

RECURSIVE Pad(_, _)
Pad(s, w) == IF Len(s) >= w THEN s ELSE Pad(<<"0">> \o s, w)

\* Python '%0wd' % n for n >= 0: at least w digits, never truncated
Fmt(n, w) == Pad(Digits(n), w)

\* Python int(x / d) of a float: truncation toward zero
Trunc(x, d) == IF x >= 0 THEN x \div d ELSE -((-x) \div d)

\* Python str.upper() on the station names in use
Upper(s) ==
    CASE s = "Ku" -> "KU" [] s = "ku" -> "KU" [] s = "KU" -> "KU"
      [] s = "Ef" -> "EF" [] s = "ef" -> "EF" [] s = "EF" -> "EF"

----------------------------------------------------------------------------
(* Date helpers                                                            *)

\* dateVEX2sec with the hour and minute weights exchanged
dateVEX2sec_swapped(vd) ==
    LET doy == ToInt(Slice(vd, 5, 8))
        hh  == ToInt(Slice(vd, 9, 11))
        mm  == ToInt(Slice(vd, 12, 14))
        ss  == ToInt(Slice(vd, 15, 17))
    IN  ss + 60 * hh + 3600 * mm + 86400 * doy

dateVEX2sec(vd) ==
    LET doy == ToInt(Slice(vd, 5, 8))
        hh  == ToInt(Slice(vd, 9, 11))
        mm  == ToInt(Slice(vd, 12, 14))
        ss  == ToInt(Slice(vd, 15, 17))
    IN  ss + 60 * mm + 3600 * hh + 86400 * doy

dateSec2VEX(sec, year) ==
    LET doy == Trunc(sec, 86400)
        R1  == sec - doy * 86400
        hh  == Trunc(R1, 3600)
        R2  == R1 - hh * 3600
        mm  == Trunc(R2, 60)
        R3  == R2 - mm * 60
        ss  == R3
    IN  Fmt(ToInt(year), 4) \o <<"y">> \o Fmt(doy, 3) \o <<"d">> \o Fmt(hh, 2)
          \o <<"h">> \o Fmt(mm, 2) \o <<"m">> \o Fmt(ss, 2) \o <<"s">>

\* dateVEXaddsec subtracting the seconds
dateVEXaddsec_minus(vd, sec) ==
    LET yr == Slice(vd, 0, 4)
        s  == dateVEX2sec(vd) - sec
    IN  dateSec2VEX(s, yr)

dateVEXaddsec(vd, sec) ==
    LET yr == Slice(vd, 0, 4)
        s  == dateVEX2sec(vd) + sec
    IN  dateSec2VEX(s, yr)

\* proleptic Gregorian calendar of datetime.date
IsLeap(y) == (y % 4 = 0) /\ ((y % 100 # 0) \/ (y % 400 = 0))
YearLen(y) == IF IsLeap(y) THEN 366 ELSE 365
MonthLen(y, m) ==
    IF m = 2 THEN (IF IsLeap(y) THEN 29 ELSE 28)
    ELSE IF m \in {4, 6, 9, 11} THEN 30 ELSE 31

RECURSIVE DaysBefore(_, _)
DaysBefore(leap, m) ==
    IF m = 1 THEN 0
    ELSE DaysBefore(leap, m - 1) + MonthLen(IF leap THEN 2016 ELSE 2015, m - 1)

\* days of the year before each month, in a common and in a leap year
DaysBeforeMonth == [leap \in BOOLEAN |-> [m \in 1..13 |-> DaysBefore(leap, m)]]

\* month and day of month of day d (1..YearLen(y)) of year y
MonthDay(y, d) ==
    LET cum == DaysBeforeMonth[IsLeap(y)]
        m == CHOOSE k \in 1..12 : cum[k] < d /\ d <= cum[k + 1]
    IN  [year |-> y, month |-> m, day |-> d - cum[m]]

\* datetime.date.fromordinal(datetime.date(yr,1,1).toordinal() + doy - 1)
RECURSIVE fromordinal(_, _)
fromordinal(yr, doy) ==
    IF doy > YearLen(yr) THEN fromordinal(yr + 1, doy - YearLen(yr))
    ELSE IF doy < 1 THEN fromordinal(yr - 1, doy + YearLen(yr - 1))
    ELSE MonthDay(yr, doy)

\* Julian Day of a date, in half-days (the script's value times 2)
date_to_jd(year, month, day) ==
    LET yearp  == IF month = 1 \/ month = 2 THEN year - 1 ELSE year
        monthp == IF month = 1 \/ month = 2 THEN month + 12 ELSE month
        A == Trunc(yearp, 100)
        B == IF (year < 1582) \/ (year = 1582 /\ month < 10)
                  \/ (year = 1582 /\ month = 10 /\ day < 15)
             THEN 0
             ELSE 2 - A + Trunc(A, 4)
        C == IF yearp < 0 THEN Trunc(1461 * yearp - 3, 4)
             ELSE Trunc(1461 * yearp, 4)
        D == Trunc(306001 * (monthp + 1), 10000)
    IN  2 * (B + C + D + day) + 3441989

\* lines 56-65: the dictionary built from the parsed fields and the date dt;
\* d['mjd'] is hd half-days plus s seconds
SplitFields(vd, yr, doy, hh, mm, ss, dt) ==
    [vex |-> vd, yr |-> yr, doy |-> doy, hh |-> hh, mm |-> mm, ss |-> ss,
     mon |-> dt.month, mday |-> dt.day,
     mjd |-> [hd |-> date_to_jd(dt.year, dt.month, dt.day) + 1 - 4800001,
              s  |-> (hh - 12) * 3600 + mm * 60 + ss]]

dateVEX2split(vd) ==
    SplitFields(vd, ToInt(Slice(vd, 0, 4)), ToInt(Slice(vd, 5, 8)),
                ToInt(Slice(vd, 9, 11)), ToInt(Slice(vd, 12, 14)),
                ToInt(Slice(vd, 15, 17)),
                fromordinal(ToInt(Slice(vd, 0, 4)), ToInt(Slice(vd, 5, 8))))

\* (a - b) for two MJD values, in seconds
MjdDiff(a, b) == (a.hd - b.hd) * 43200 + (a.s - b.s)

Floor(n, d) == n \div d
Ceil(n, d) == -((-n) \div d)
Max0(x) == IF x > 0 THEN x ELSE 0

flag_startint(vex_tstart, Tstart, Tint) ==
    Max0(Floor(MjdDiff(dateVEX2split(vex_tstart).mjd, Tstart) * 1000, Tint))

\* flag_stopint rounding down
flag_stopint_floor(vex_tstop, Tstart, Tint) ==
    Max0(Floor(MjdDiff(dateVEX2split(vex_tstop).mjd, Tstart) * 1000, Tint))

\* flag_stopint naming the block after the last one
flag_stopint_next(vex_tstop, Tstart, Tint) ==
    Max0(Ceil(MjdDiff(dateVEX2split(vex_tstop).mjd, Tstart) * 1000, Tint) + 1)

flag_stopint(vex_tstop, Tstart, Tint) ==
    Max0(Ceil(MjdDiff(dateVEX2split(vex_tstop).mjd, Tstart) * 1000, Tint))

\* lines 98-102: the list after the two indices are compared
Flagged(a, b, list) == IF a = b THEN list ELSE Append(list, <<a, b>>)

\* doFlag without the test of line 98
doFlag_always(vex_tstart, vex_tstop, Tstart, Tint, list) ==
    Append(list, <<flag_startint(vex_tstart, Tstart, Tint),
                   flag_stopint(vex_tstop, Tstart, Tint)>>)

\* doFlag: the list after the call
doFlag(vex_tstart, vex_tstop, Tstart, Tint, list) ==
    Flagged(flag_startint(vex_tstart, Tstart, Tint),
            flag_stopint(vex_tstop, Tstart, Tint), list)

CallEntry(vex_tstart, vex_tstop, a, b, isfinal) ==
    [start |-> vex_tstart, stop |-> vex_tstop, a |-> a, b |-> b,
     app |-> (a # b), final |-> isfinal]

\* the log entry of one doFlag call
Call(vex_tstart, vex_tstop, Tstart, Tint, isfinal) ==
    CallEntry(vex_tstart, vex_tstop, flag_startint(vex_tstart, Tstart, Tint),
              flag_stopint(vex_tstop, Tstart, Tint), isfinal)

\* fb_Tint after lines 158 and 163, in milliseconds
BlockDuration(tint, nblocks) == tint * 480 * nblocks

----------------------------------------------------------------------------
(* Inputs                                                                  *)

VEX(yr, doy, hh, mm, ss) ==
    Fmt(yr, 4) \o <<"y">> \o Fmt(doy, 3) \o <<"d">> \o Fmt(hh, 2)
      \o <<"h">> \o Fmt(mm, 2) \o <<"m">> \o Fmt(ss, 2) \o <<"s">>

\* 2015y262d11hMMm00s
At(mm) == VEX(2015, 262, 11, mm, 0)

StartChoices == {At(0), At(10), At(20)}
DwellChoices == {300, 600}
\* the station lines of a scan: st[0] is the name, dur is int(st[2].split()[0])
StationChoices(d) ==
    { <<[st0 |-> "Ef", dur |-> 120]>>,
      <<[st0 |-> "Ef", dur |-> 120], [st0 |-> "Ku", dur |-> d]>> }
\* the dwell of an off-source scan is never read: line 199 deletes the scan
ScanChoices ==
    { [source |-> "X", start |-> t, station |-> sl] :
        t \in StartChoices, sl \in UNION { StationChoices(d) : d \in DwellChoices } }
    \cup
    { [source |-> "Y", start |-> t, station |-> sl] :
        t \in StartChoices, sl \in StationChoices(300) }
TstartChoices == { dateVEX2split(t).mjd : t \in {At(0), At(10)} }
TintChoices == {625}
BlocksChoices == {1, 3}
StopChoices == {At(20), At(30), At(40)}

\* the schedule as provided: entries in non-decreasing start-time order
Ordered(sq) ==
    \A i \in 1..(Len(sq) - 1) : dateVEX2sec(sq[i].start) <= dateVEX2sec(sq[i + 1].start)

Schedules ==
    { [i \in 1..Len(sq) |-> [name |-> i, source |-> sq[i].source,
                             start |-> sq[i].start, station |-> sq[i].station]] :
        sq \in { q \in UNION { [1..n -> ScanChoices] : n \in 0..MaxScans } : Ordered(q) } }

----------------------------------------------------------------------------
(* The pipeline                                                            *)

Involves(scan, tel) == \E k \in 1..Len(scan.station) : Upper(scan.station[k].st0) = tel

\* lines 173-179: delete every scan that does not include the station
StationFilter(sc, tel) == SelectSeq(sc, LAMBDA x : Involves(x, tel))

\* the source filter deleting the on-source scans instead
SourceFilter_inverted(sc, src) == SelectSeq(sc, LAMBDA x : x.source # src)

\* lines 196-199: delete every scan that is not on the source
SourceFilter(sc, src) == SelectSeq(sc, LAMBDA x : ~(x.source # src))

Init ==
    /\ sched \in Schedules
    /\ nominal_stop = <<>>
    /\ source = "X"
    /\ telescope = Upper("ku")
    /\ blocks \in BlocksChoices
    /\ fb_Tstart \in TstartChoices
    /\ \E tint \in TintChoices : fb_Tint = BlockDuration(tint, blocks)
    /\ scans = sched
    /\ Nscans = Len(sched)
    /\ scan_1 = None
    /\ scan_N = None
    /\ zap_tstart = None
    /\ ii = 0
    /\ zapints_list = <<>>
    /\ calls = <<>>
    /\ pc = "count"
    /\ vdate = <<>> /\ secs = 0 /\ back = <<>>

inputs == <<sched, source, telescope, blocks>>

\* lines 165-171
CheckCount ==
    /\ pc = "count"
    /\ pc' = IF Nscans <= 1 THEN "exit" ELSE "station"
    /\ UNCHANGED <<inputs, nominal_stop, fb_Tstart, fb_Tint, scans, Nscans, scan_1, scan_N,
                   zap_tstart, ii, zapints_list, calls, convvars>>

\* lines 173-185
KeepStation ==
    /\ pc = "station"
    /\ scans' = StationFilter(scans, telescope)
    /\ IF Len(scans') <= 1
       THEN pc' = "exit" /\ UNCHANGED Nscans
       ELSE pc' = "first" /\ Nscans' = Len(scans')
    /\ UNCHANGED <<inputs, nominal_stop, fb_Tstart, fb_Tint, scan_1, scan_N,
                   zap_tstart, ii, zapints_list, calls, convvars>>

\* lines 192-194
FirstLast ==
    /\ pc = "first"
    /\ scan_1' = scans[1]
    /\ scan_N' = scans[Nscans]
    /\ pc' = "source"
    /\ UNCHANGED <<inputs, nominal_stop, fb_Tstart, fb_Tint, scans, Nscans,
                   zap_tstart, ii, zapints_list, calls, convvars>>

\* lines 196-207
KeepSource ==
    /\ pc = "source"
    /\ scans' = SourceFilter(scans, source)
    /\ Nscans' = Len(scans')
    /\ IF Nscans' < 1
       THEN pc' = "exit" /\ UNCHANGED <<zap_tstart, ii>>
       ELSE pc' = "zap" /\ zap_tstart' = scan_1.start /\ ii' = 1
    /\ UNCHANGED <<inputs, nominal_stop, fb_Tstart, fb_Tint, scan_1, scan_N,
                   zapints_list, calls, convvars>>

\* lines 209-218 for one scan: the walk over its station lines from line k on,
\* st = [cur, list, log]
RECURSIVE ZapStations(_, _, _)
ZapStations(scan, k, st) ==
    IF k > Len(scan.station) THEN st
    ELSE IF ~(Upper(scan.station[k].st0) = telescope)
         THEN ZapStations(scan, k + 1, st)
    ELSE LET zap_tstop == scan.start
             dur_sec == scan.station[k].dur
         IN  ZapStations(scan, k + 1,
                [cur  |-> dateVEXaddsec(zap_tstop, dur_sec),
                 list |-> doFlag(st.cur, zap_tstop, fb_Tstart, fb_Tint, st.list),
                 log  |-> Append(st.log, Call(st.cur, zap_tstop, fb_Tstart, fb_Tint, FALSE))])

\* lines 208-218, one iteration of the loop over the on-source scans
ZapStep ==
    /\ pc = "zap"
    /\ ii <= Nscans
    /\ \E r \in { ZapStations(scans[ii], 1,
                      [cur |-> zap_tstart, list |-> zapints_list, log |-> calls]) } :
           /\ zap_tstart' = r.cur
           /\ zapints_list' = r.list
           /\ calls' = r.log
    /\ ii' = ii + 1
    /\ pc' = "zap"
    /\ UNCHANGED <<inputs, nominal_stop, fb_Tstart, fb_Tint, scans, Nscans, scan_1, scan_N, convvars>>

\* the test of line 219 with the comparison reversed
FinalGapDue_equal(last, cursor) == last.start = cursor

\* the test of line 219
FinalGapDue(last, cursor) == last.start # cursor

\* lines 219-221, then the output is written; the nominal stop of the session
\* is whatever the EXPER block holds
FinalGap ==
    /\ pc = "zap"
    /\ ii > Nscans
    /\ nominal_stop' \in StopChoices
    /\ IF FinalGapDue(scan_N, zap_tstart)
       THEN /\ zapints_list' = doFlag(zap_tstart, nominal_stop', fb_Tstart,
                                      fb_Tint, zapints_list)
            /\ calls' = Append(calls, Call(zap_tstart, nominal_stop', fb_Tstart,
                                           fb_Tint, TRUE))
       ELSE UNCHANGED <<zapints_list, calls>>
    /\ pc' = "done"
    /\ UNCHANGED <<inputs, fb_Tstart, fb_Tint, scans, Nscans, scan_1, scan_N,
                   zap_tstart, ii, convvars>>

Next == CheckCount \/ KeepStation \/ FirstLast \/ KeepSource \/ ZapStep \/ FinalGap

Spec == Init /\ [][Next]_vars

----------------------------------------------------------------------------
(* The date conversions on their own: a date is converted to seconds of    *)
(* year and back, the year passed as dateVEXaddsec passes it               *)

YearChoices == {800, 2015, 2016}
DoyChoices == {1, 59, 60, 262, 365, 366}
HourChoices == {0, 11, 23}
MinuteChoices == {0, 7, 59}
SecondChoices == {0, 15, 59}

ConvInit ==
    /\ vdate \in { VEX(y, d, h, m, x) : y \in YearChoices, d \in DoyChoices,
                     h \in HourChoices, m \in MinuteChoices, x \in SecondChoices }
    /\ secs = 0
    /\ back = <<>>
    /\ sched = <<>> /\ nominal_stop = <<>> /\ source = "X" /\ telescope = "KU"
    /\ blocks = 1 /\ fb_Tstart = None /\ fb_Tint = None
    /\ scans = <<>> /\ Nscans = 0 /\ scan_1 = None /\ scan_N = None
    /\ zap_tstart = None /\ ii = 0 /\ zapints_list = <<>> /\ calls = <<>>
    /\ pc = "tosec"

convfixed == <<sched, nominal_stop, source, telescope, blocks, fb_Tstart, fb_Tint,
               scans, Nscans, scan_1, scan_N, zap_tstart, ii, zapints_list, calls>>

ToSec ==
    /\ pc = "tosec"
    /\ secs' = dateVEX2sec(vdate)
    /\ pc' = "tovex"
    /\ UNCHANGED <<convfixed, vdate, back>>

ToVEX ==
    /\ pc = "tovex"
    /\ back' = dateSec2VEX(secs, Slice(vdate, 0, 4))
    /\ pc' = "converted"
    /\ UNCHANGED <<convfixed, vdate, secs>>

ConvNext == ToSec \/ ToVEX

SpecConv == ConvInit /\ [][ConvNext]_vars

----------------------------------------------------------------------------
(* Vocabulary of the properties                                            *)

Sec(v) == dateVEX2sec(v)

\* time of a VEX date relative to the recording reference, in milliseconds
RelMs(v) == MjdDiff(dateVEX2split(v).mjd, fb_Tstart) * 1000

\* the entry involves the target station (any letter case) and is on the source
Qualifies(e) ==
    /\ \E k \in 1..Len(e.station) : Upper(e.station[k].st0) = "KU"
    /\ e.source = "X"

TargetDwell(e) ==
    e.station[CHOOSE k \in 1..Len(e.station) : Upper(e.station[k].st0) = "KU"].dur

OnSource == SelectSeq(sched, Qualifies)

\* each on-source dwell of the station ends before the next one starts
DwellsDisjoint ==
    \A i \in 1..(Len(OnSource) - 1) :
        Sec(OnSource[i].start) + TargetDwell(OnSource[i]) <= Sec(OnSource[i + 1].start)

\* no on-source dwell of the station runs past the nominal stop
WithinStop ==
    \A i \in 1..Len(OnSource) :
        Sec(OnSource[i].start) + TargetDwell(OnSource[i]) <= Sec(nominal_stop)

\* the precondition on the schedule; the nominal stop counts once it is read
OrderedDisjoint == Ordered(sched) /\ DwellsDisjoint /\ (pc = "done" => WithinStop)

Walking == pc \in {"zap", "done"}

----------------------------------------------------------------------------
(* C1 *)

\* C1 as stated: every emitted block range covers its gap on both sides,
\* also when the gap begins before the reference start.
C1_RangeCoversGap ==
    Walking =>
        \A i \in 1..Len(calls) :
            calls[i].app =>
                /\ calls[i].a * fb_Tint <= RelMs(calls[i].start)
                /\ calls[i].b * fb_Tint >= RelMs(calls[i].stop)

\* C1 amended: every emitted block range reaches the end of its gap, and it
\* begins at or before the gap's start whenever the gap begins at or after the
\* reference start.
C1_RangeCoversGapFromReference ==
    Walking =>
        \A i \in 1..Len(calls) :
            calls[i].app =>
                /\ RelMs(calls[i].start) >= 0 =>
                       calls[i].a * fb_Tint <= RelMs(calls[i].start)
                /\ calls[i].b * fb_Tint >= RelMs(calls[i].stop)

C1_Witness ==
    /\ Walking
    /\ \E i \in 1..Len(calls) :
          /\ calls[i].app
          /\ RelMs(calls[i].start) > 0
          /\ calls[i].a * fb_Tint < RelMs(calls[i].start)
          /\ calls[i].b * fb_Tint > RelMs(calls[i].stop)

----------------------------------------------------------------------------
(* C2 *)

\* C2 as stated: a candidate gap shorter than one block duration, a gap with
\* start = stop included, appends nothing to the output list.
C2_ShortGapAppendsNothing ==
    Walking =>
        \A i \in 1..Len(calls) :
            LET d == Sec(calls[i].stop) - Sec(calls[i].start)
            IN  (0 <= d /\ d * 1000 < fb_Tint) => ~calls[i].app

----------------------------------------------------------------------------
(* C3 *)

\* C3 as stated: when the walk is over and the cursor has not reached the
\* nominal stop, the last doFlag call is the final gap from the cursor to the
\* nominal stop.
C3_FinalGapForwarded ==
    (pc = "done" /\ Sec(zap_tstart) < Sec(nominal_stop)) =>
        /\ Len(calls) >= 1
        /\ calls[Len(calls)].final
        /\ calls[Len(calls)].start = zap_tstart
        /\ calls[Len(calls)].stop = nominal_stop

----------------------------------------------------------------------------
(* C4 *)

\* C4 as stated: every pair of the output list has 0 <= start < stop, for any
\* schedule.
C4_PairsWellFormed ==
    Walking =>
        \A k \in 1..Len(zapints_list) :
            0 <= zapints_list[k][1] /\ zapints_list[k][1] < zapints_list[k][2]

\* C4 amended: every pair of the output list has non-negative, different
\* indices, and 0 <= start < stop when the schedule is time-ordered and the
\* station's on-source dwells neither overlap nor run past the nominal stop.
C4_PairsWellFormedOnDisjointDwells ==
    Walking =>
        /\ \A k \in 1..Len(zapints_list) :
              /\ 0 <= zapints_list[k][1]
              /\ 0 <= zapints_list[k][2]
              /\ zapints_list[k][1] # zapints_list[k][2]
        /\ \/ \A k \in 1..Len(zapints_list) : zapints_list[k][1] < zapints_list[k][2]
           \/ ~OrderedDisjoint

C4_Witness ==
    /\ pc = "done"
    /\ OrderedDisjoint
    /\ Len(zapints_list) >= 2
    /\ \E i \in 1..Len(calls) : ~calls[i].app

----------------------------------------------------------------------------
(* C5 *)

ExampleStations == <<[st0 |-> "Ef", dur |-> 120], [st0 |-> "Ku", dur |-> 300]>>

ExampleSchedule ==
    << [name |-> 1, source |-> "X", start |-> At(0), station |-> ExampleStations],
       [name |-> 2, source |-> "Y", start |-> At(10), station |-> ExampleStations],
       [name |-> 3, source |-> "X", start |-> At(20), station |-> ExampleStations] >>

ExampleReference == dateVEX2split(At(0)).mjd

ExampleGaps == << <<At(0), At(0)>>, <<At(5), At(20)>>, <<At(25), At(30)>> >>

IsExample ==
    /\ fb_Tint = 300000
    /\ Len(sched) = 3
    /\ sched = ExampleSchedule
    /\ nominal_stop = ExampleGaps[3][2]
    /\ fb_Tstart = ExampleReference

\* C5: the worked example ends with exactly two block ranges, the first for
\* the gap 11:05-11:20 and the second for the gap 11:25-11:30; the initial gap
\* 11:00-11:00 appends nothing.
C5_WorkedExample ==
    (pc = "done" /\ IsExample) =>
        /\ Len(calls) = 3
        /\ \A i \in 1..3 : <<calls[i].start, calls[i].stop>> = ExampleGaps[i]
        /\ ~calls[1].app /\ calls[2].app /\ calls[3].app
        /\ zapints_list = << <<calls[2].a, calls[2].b>>, <<calls[3].a, calls[3].b>> >>

C5_Witness == pc = "done" /\ IsExample /\ Len(zapints_list) = 2

----------------------------------------------------------------------------
(* C6 *)

\* C6 as stated: the run ends with "nothing to do" if no entry of the schedule
\* involves the station and is on the source, and only then.
C6_ExitOnlyWhenFilteredEmpty ==
    /\ pc = "exit" => Len(OnSource) < 1
    /\ Walking => Len(OnSource) >= 1

----------------------------------------------------------------------------
(* C7 *)

\* C7 as stated: on a time-ordered schedule with disjoint dwells inside the
\* nominal stop, consecutive output pairs (a1,b1), (a2,b2) have b1 <= a2.
C7_RangesDisjoint ==
    (Walking /\ OrderedDisjoint) =>
        \A k \in 1..(Len(zapints_list) - 1) :
            zapints_list[k][2] <= zapints_list[k + 1][1]

\* C7 amended: on such a schedule consecutive output pairs are in increasing
\* order and share at most one block: b1 <= a2 + 1.
C7_RangesShareAtMostOneBlock ==
    Walking =>
        \/ \A k \in 1..(Len(zapints_list) - 1) :
              zapints_list[k][2] <= zapints_list[k + 1][1] + 1
        \/ ~OrderedDisjoint

C7_Witness ==
    /\ pc = "done"
    /\ OrderedDisjoint
    /\ \E k \in 1..(Len(zapints_list) - 1) :
          zapints_list[k][2] = zapints_list[k + 1][1] + 1

----------------------------------------------------------------------------
(* C8 *)

\* C8: converting a valid date to seconds of year and back, with its own
\* year, gives the same year, day of year, hour, minute and second.
C8_RoundTrip ==
    pc = "converted" => back = vdate

C8_Witness ==
    /\ pc = "converted"
    /\ back = vdate
    /\ ToInt(Slice(vdate, 5, 8)) = 366
    /\ ToInt(Slice(vdate, 9, 11)) = 23
    /\ ToInt(Slice(vdate, 15, 17)) = 59

----------------------------------------------------------------------------
(* C9 *)

\* C9: after the two deletion passes the scans are exactly the entries of the
\* schedule that involve the station and are on the source, in the order of
\* the schedule.
C9_FilterExact ==
    Walking =>
        /\ \A k \in 1..Len(scans) :
              /\ \E i \in 1..Len(sched) : sched[i] = scans[k]
              /\ Qualifies(scans[k])
        /\ \A i \in 1..Len(sched) :
              Qualifies(sched[i]) => \E k \in 1..Len(scans) : scans[k] = sched[i]
        /\ \A k \in 1..(Len(scans) - 1) : scans[k].name < scans[k + 1].name

C9_Witness ==
    /\ pc = "zap"
    /\ Len(sched) = 3
    /\ Len(scans) = 2
    /\ scans[1] = sched[1]
    /\ scans[2] = sched[3]

----------------------------------------------------------------------------
(* C10 *)

\* C10 as stated: on a schedule with non-decreasing start times and
\* non-negative dwells no step of the walk moves the cursor back.
C10_CursorMonotone ==
    [][(pc = "zap" /\ Ordered(sched)) => Sec(zap_tstart') >= Sec(zap_tstart)]_vars

\* C10 amended: no step of the walk moves the cursor back when, in addition,
\* the station's on-source dwells do not overlap.
C10_CursorMonotoneOnDisjointDwells ==
    [][(pc = "zap" /\ Ordered(sched) /\ DwellsDisjoint)
          => Sec(zap_tstart') >= Sec(zap_tstart)]_vars

C10_Witness ==
    /\ pc = "zap"
    /\ Ordered(sched)
    /\ DwellsDisjoint
    /\ ii = 3
    /\ Sec(zap_tstart) > Sec(scan_1.start) + 600
=============================================================================
